---- MODULE Spec2Model ----
(***************************************************************************)
(* Forward pass of the bidirectional memory network                        *)
(* (model/memory_network_bidir.py): RecurrentEncoder.apply, Model.predict  *)
(* and Model.cost, with the index arithmetic, the keyword lookups, the     *)
(* tensor shapes and the attention arithmetic of the source.               *)
(*                                                                         *)
(* Numbers.  Coordinates are integers of the form mean + std * z, so that  *)
(* the standardisation of lines 53-54 is exact.  Everything computed from  *)
(* a representation on (normalised representation, score, attention        *)
(* weight, destination, cost) is an exact rational [n |-> , d |-> ] with   *)
(* d > 0; the record with d = 0 is the floating-point NaN that 0/0 gives.  *)
(*                                                                         *)
(* Library bricks whose weights are learned (Fork + Bidirectional LSTM,    *)
(* LookupTable, MLP) are deterministic integer functions of their input    *)
(* and of the owning encoder's parameter value; the exponential of the     *)
(* softmax is taken to base 2, which keeps it positive, monotone and exact.*)
(***************************************************************************)
EXTENDS Integers, Sequences, FiniteSets, TLC

VARIABLES model, call, result

vars == <<model, call, result>>

(* ------------------------------ bounds --------------------------------- *)
MaxT == 2          \* padded sequence lengths 1..MaxT
MaxPrefix == 2     \* prefix batch sizes 1..MaxPrefix
MaxCand == 3       \* candidate batch sizes 1..MaxCand
MaxRecDim == 2     \* rec_state_dim 1..MaxRecDim
MaxOutDim == 2     \* output_dim / representation_size 1..MaxOutDim
HiddenMod == 5     \* hidden-state components range over 0..HiddenMod-1

(* ------------------------------ helpers -------------------------------- *)
Range(s) == {s[n] : n \in 1..Len(s)}

RECURSIVE SumSeq(_)
SumSeq(s) == IF Len(s) = 0 THEN 0 ELSE s[1] + SumSeq(Tail(s))

RECURSIVE ConcatAll(_)
ConcatAll(ss) == IF Len(ss) = 0 THEN <<>> ELSE ss[1] \o ConcatAll(Tail(ss))

Abs(x) == IF x < 0 THEN -x ELSE x

RECURSIVE Pow2(_)
Pow2(e) == IF e <= 0 THEN 1 ELSE 2 * Pow2(e - 1)

RECURSIVE Gcd(_, _)
Gcd(a, b) == IF b = 0 THEN a ELSE Gcd(b, a % b)

(* exact rationals; d = 0 is NaN *)
NaN == [n |-> 0, d |-> 0]
IsNaN(x) == x.d = 0
Rat(n, d) ==
    IF d = 0 THEN NaN
    ELSE LET g == Gcd(Abs(n), Abs(d))
             s == IF d < 0 THEN -1 ELSE 1
         IN  [n |-> s * (n \div g), d |-> s * (d \div g)]
RInt(k) == [n |-> k, d |-> 1]
RAdd(x, y) == IF IsNaN(x) \/ IsNaN(y) THEN NaN ELSE Rat(x.n * y.d + y.n * x.d, x.d * y.d)
RMul(x, y) == IF IsNaN(x) \/ IsNaN(y) THEN NaN ELSE Rat(x.n * y.n, x.d * y.d)
RDiv(x, y) == IF IsNaN(x) \/ IsNaN(y) \/ y.n = 0 THEN NaN ELSE Rat(x.n * y.d, x.d * y.n)
RAbs(x) == [n |-> Abs(x.n), d |-> x.d]
RLeq(x, y) == ~IsNaN(x) /\ ~IsNaN(y) /\ x.n * y.d <= y.n * x.d

RECURSIVE RSum(_)
RSum(s) == IF Len(s) = 0 THEN RInt(0) ELSE RAdd(s[1], RSum(Tail(s)))

(* the integer square root of a perfect square *)
Sqrt(n) == CHOOSE r \in 0..n : r * r = n

(* numpy indexing of an axis of length n by idx: negative indices wrap once *)
PyIndex(idx, n) == IF idx < 0 THEN idx + n ELSE idx
InBounds(idx, n) == PyIndex(idx, n) >= 0 /\ PyIndex(idx, n) < n

Transpose(m) == [t \in 1..Len(m[1]) |-> [i \in 1..Len(m) |-> m[i][t]]]

(* ------------------------ external collaborators ----------------------- *)
(* data.train_gps_mean / data.train_gps_std: fixed population constants *)
train_gps_mean == <<40, -9>>
train_gps_std == <<2, 3>>

(* model.ContextEmbedder: one lookup table per (name, num, size) entry *)
ContextEmbedder(config, params) ==
    [dim_embeddings |-> config.dim_embeddings,
     inputs |-> [n \in 1..Len(config.dim_embeddings) |-> config.dim_embeddings[n][1]],
     params |-> params]

\* one (batch x size) matrix per context key
ContextEmbedderApply(self, kwargs) ==
    [n \in 1..Len(self.dim_embeddings) |->
        LET name == self.dim_embeddings[n][1]
            num == self.dim_embeddings[n][2]
            size == self.dim_embeddings[n][3]
        IN  [i \in 1..Len(kwargs[name]) |->
                [d \in 1..size |-> ((kwargs[name][i] % num) + d + n + self.params) % 2]]]

(* Fork (a Linear per gate) followed by one masked LSTM step *)
LSTMStep(params, h, x) ==
    [d \in 1..Len(h) |-> (2 * h[d] + x[1] + 2 * x[2] + d + params) % HiddenMod]

(* forward pass: where the mask is 0 the previous state is carried over *)
RECURSIVE Forward(_, _, _, _, _, _)
Forward(params, dim, rec_in, mask, i, t) ==
    LET prev == IF t = 1 THEN [d \in 1..dim |-> 0]
                ELSE Forward(params, dim, rec_in, mask, i, t - 1)
    IN  IF mask[t][i] = 1 THEN LSTMStep(params, prev, rec_in[t][i]) ELSE prev

(* backward pass over the same padded sequence *)
RECURSIVE Backward(_, _, _, _, _, _)
Backward(params, dim, rec_in, mask, i, t) ==
    LET next == IF t = Len(mask) THEN [d \in 1..dim |-> 0]
                ELSE Backward(params, dim, rec_in, mask, i, t + 1)
    IN  IF mask[t][i] = 1 THEN LSTMStep(params + 1, next, rec_in[t][i]) ELSE next

(* Bidirectional: per timestep and example, forward states then backward states *)
rec_apply(self, rec_in, mask) ==
    [t \in 1..Len(mask) |-> [i \in 1..Len(mask[1]) |->
        Forward(self.params, self.config.rec_state_dim, rec_in, mask, i, t)
        \o Backward(self.params, self.config.rec_state_dim, rec_in, mask, i, t)]]

(* MLP: rectified hidden layers, then the output layer.  The output has at *)
(* most one non-zero component, so its Euclidean norm is a whole number.   *)
Weighted(v) == SumSeq([n \in 1..Len(v) |-> n * v[n]])

RECURSIVE MLPApply(_, _, _)
MLPApply(dims, params, v) ==
    IF Len(dims) = 2
    THEN LET s == Weighted(v) + params
         IN  [d \in 1..dims[2] |->
                IF d = (s % dims[2]) + 1 THEN ((s \div dims[2]) % 4) - 1 ELSE 0]
    ELSE LET h == [d \in 1..dims[2] |->
                      LET pre == ((Weighted(v) + d + params) % 5) - 2
                      IN  IF pre > 0 THEN pre ELSE 0]
         IN  MLPApply(Tail(dims), params, h)

(* ---------------------------- RecurrentEncoder ------------------------- *)
RecurrentEncoder(config, output_dim, params) ==
    LET context_embedder == ContextEmbedder(config, params)
        rto_in == config.rec_state_dim * 2
                  + SumSeq([n \in 1..Len(config.dim_embeddings) |-> config.dim_embeddings[n][3]])
        rec_inputs == <<"latitude", "longitude", "latitude_mask">>
    IN  [config |-> config,
         context_embedder |-> context_embedder,
         params |-> params,
         output_dim |-> output_dim,
         rto_in |-> rto_in,
         rto_dims |-> <<rto_in>> \o config.dim_hidden \o <<output_dim>>,
         rec_inputs |-> rec_inputs,
         inputs |-> context_embedder.inputs \o rec_inputs]

\* lines 53-54: (x.T - mean) / std, time becomes the leading axis
Standardize(x, c) ==
    Transpose([i \in 1..Len(x) |-> [t \in 1..Len(x[i]) |->
        (x[i][t] - train_gps_mean[c]) \div train_gps_std[c]]])

\* variant: the last index clamped at 0
LastIdClamped(latitude_mask) ==
    [i \in 1..Len(latitude_mask[1]) |->
        LET last == SumSeq([t \in 1..Len(latitude_mask) |-> latitude_mask[t][i]]) - 1
        IN  IF last < 0 THEN 0 ELSE last]

\* line 61: latitude_mask.sum(axis=0) - 1, on the transposed (time x batch) mask
LastId(latitude_mask) ==
    [i \in 1..Len(latitude_mask[1]) |->
        SumSeq([t \in 1..Len(latitude_mask) |-> latitude_mask[t][i]]) - 1]

\* line 64: the index handed to path[., arange]
PathIndex(last_id) == [i \in 1..Len(last_id) |-> last_id[i] - 1]

\* variant: the indexed timestep's states taken whole, not cut to the
\* forward half
PathRepresentationUncut(self, path, index) ==
    LET dim == self.config.rec_state_dim
    IN  [i \in 1..Len(index) |->
            SubSeq(path[1][i], Len(path[1][i]) - dim + 1, Len(path[1][i]))
            \o path[PyIndex(index[i], Len(path)) + 1][i]]

\* lines 63-65: backward state of the first timestep, forward state of the
\* indexed timestep
PathRepresentation(self, path, index) ==
    LET dim == self.config.rec_state_dim
    IN  [i \in 1..Len(index) |->
            SubSeq(path[1][i], Len(path[1][i]) - dim + 1, Len(path[1][i]))
            \o SubSeq(path[PyIndex(index[i], Len(path)) + 1][i], 1, dim)]

\* lines 57-58: the two standardised channels, per timestep and example
RecIn(kwargs) ==
    LET latitude == Standardize(kwargs["latitude"], 1)
        longitude == Standardize(kwargs["longitude"], 2)
    IN  [t \in 1..Len(latitude) |-> [i \in 1..Len(latitude[t]) |->
            <<latitude[t][i], longitude[t][i]>>]]

\* line 59: the hidden states of the bidirectional pass, (time x batch x 2 dim)
Path(self, kwargs) ==
    rec_apply(self, RecIn(kwargs), Transpose(kwargs["latitude_mask"]))

apply(self, kwargs) ==
    LET latitude_mask == Transpose(kwargs["latitude_mask"])
        T == Len(latitude_mask)
        B == Len(latitude_mask[1])
        path == Path(self, kwargs)
        last_id == LastId(latitude_mask)
        index == PathIndex(last_id)
        missing == {k \in Range(self.context_embedder.inputs) : k \notin DOMAIN kwargs}
        path_representation == PathRepresentation(self, path, index)
        embeddings == ContextEmbedderApply(self.context_embedder, kwargs)
        inputs == [i \in 1..B |->
                      path_representation[i]
                      \o ConcatAll([n \in 1..Len(embeddings) |-> embeddings[n][i]])]
    IN  \* a context key is looked up while the graph is built; an index is
        \* checked by the tensor library when the graph runs
        IF missing # {}
        THEN [status |-> "KeyError", key |-> CHOOSE k \in missing : TRUE]
        ELSE IF \E i \in 1..B : ~InBounds(index[i], T)
        THEN [status |-> "IndexError", last_id |-> last_id, index |-> index]
        ELSE IF \E i \in 1..B : Len(inputs[i]) # self.rto_dims[1]
        THEN [status |-> "ValueError", last_id |-> last_id, index |-> index,
              inputs |-> inputs]
        ELSE [status |-> "ok",
              last_id |-> last_id,
              index |-> index,
              timestep |-> [i \in 1..B |-> PyIndex(index[i], T)],
              inputs |-> inputs,
              outputs |-> [i \in 1..B |-> MLPApply(self.rto_dims, self.params, inputs[i])]]

(* --------------------------------- Model ------------------------------- *)
\* variant: the candidate names without their prefix
ModelInputsUnprefixed(prefix_encoder, candidate_encoder) ==
    prefix_encoder.inputs \o candidate_encoder.inputs

\* lines 95-96
ModelInputs(prefix_encoder, candidate_encoder) ==
    prefix_encoder.inputs
    \o [n \in 1..Len(candidate_encoder.inputs) |-> "candidate_" \o candidate_encoder.inputs[n]]

Model(config, params) ==
    LET prefix_encoder == RecurrentEncoder(config.prefix_encoder,
                                           config.representation_size,
                                           params.prefix_encoder)
        candidate_encoder == RecurrentEncoder(config.candidate_encoder,
                                              config.representation_size,
                                              params.candidate_encoder)
    IN  [config |-> config,
         prefix_encoder |-> prefix_encoder,
         candidate_encoder |-> candidate_encoder,
         inputs |-> ModelInputs(prefix_encoder, candidate_encoder)]

predict_inputs(self) == self.inputs

cost_inputs(self) == self.inputs \o <<"destination_latitude", "destination_longitude">>

\* lines 105-106
PrefixRepresentation(self, kwargs) ==
    apply(self.prefix_encoder,
          [name \in Range(self.prefix_encoder.inputs) |-> kwargs[name]])

\* variant: the candidates encoded by the candidate encoder
CandidateRepresentationOwnEncoder(self, kwargs) ==
    apply(self.candidate_encoder,
          [name \in Range(self.candidate_encoder.inputs) |-> kwargs["candidate_" \o name]])

\* lines 108-109
CandidateRepresentation(self, kwargs) ==
    apply(self.prefix_encoder,
          [name \in Range(self.candidate_encoder.inputs) |-> kwargs["candidate_" \o name]])

\* lines 111-113: each row divided by the square root of its sum of squares
Normalize(self, representation) ==
    IF self.config.normalize_representation
    THEN [j \in 1..Len(representation) |->
            LET norm == Sqrt(SumSeq([d \in 1..Len(representation[j]) |->
                                        representation[j][d] * representation[j][d]]))
            IN  [d \in 1..Len(representation[j]) |->
                    RDiv(RInt(representation[j][d]), RInt(norm))]]
    ELSE [j \in 1..Len(representation) |->
            [d \in 1..Len(representation[j]) |-> RInt(representation[j][d])]]

\* line 115: dot(prefix_representation, candidate_representation.T)
SimilarityScore(prefix_representation, candidate_representation) ==
    [i \in 1..Len(prefix_representation) |->
        [j \in 1..Len(candidate_representation) |->
            RSum([d \in 1..Len(prefix_representation[i]) |->
                    RMul(RInt(prefix_representation[i][d]), candidate_representation[j][d])])]]

\* Softmax over each row: exp(x - max) / sum(exp(x - max)), base 2; the
\* scores that reach it are whole numbers or NaN
SoftmaxRow(row) ==
    IF \E j \in 1..Len(row) : IsNaN(row[j])
    THEN [j \in 1..Len(row) |-> NaN]
    ELSE LET lo == CHOOSE x \in Range(row) : \A y \in Range(row) : RLeq(x, y)
             e == [j \in 1..Len(row) |-> Pow2((row[j].n \div row[j].d) - (lo.n \div lo.d))]
         IN  [j \in 1..Len(row) |-> Rat(e[j], SumSeq(e))]

\* variant: normalised over the prefixes of each candidate
SoftmaxOverPrefixes(x) ==
    Transpose([j \in 1..Len(x[1]) |-> SoftmaxRow([i \in 1..Len(x) |-> x[i][j]])])

\* line 116
Softmax(x) == [i \in 1..Len(x) |-> SoftmaxRow(x[i])]

\* line 119: candidate_mask.sum(axis=1) - 1
CandidateLast(candidate_mask) ==
    [j \in 1..Len(candidate_mask) |-> SumSeq(candidate_mask[j]) - 1]

\* variant: the last column of the padded arrays
CandidateDestinationLastColumn(kwargs, candidate_last) ==
    [j \in 1..Len(candidate_last) |->
        <<kwargs["candidate_latitude"][j][Len(kwargs["candidate_latitude"][j])],
          kwargs["candidate_longitude"][j][Len(kwargs["candidate_longitude"][j])]>>]

\* lines 120-125: rows [arange, candidate_last] of the two coordinate arrays
CandidateDestination(kwargs, candidate_last) ==
    [j \in 1..Len(candidate_last) |->
        <<kwargs["candidate_latitude"][j]
              [PyIndex(candidate_last[j], Len(kwargs["candidate_latitude"][j])) + 1],
          kwargs["candidate_longitude"][j]
              [PyIndex(candidate_last[j], Len(kwargs["candidate_longitude"][j])) + 1]>>]

\* line 127: dot(similarity, candidate_destination)
WeightedSum(similarity, candidate_destination) ==
    [i \in 1..Len(similarity) |->
        [c \in 1..2 |->
            RSum([j \in 1..Len(candidate_destination) |->
                    RMul(similarity[i][j], RInt(candidate_destination[j][c]))])]]

predict(self, kwargs) ==
    LET missing_prefix == {k \in Range(self.prefix_encoder.inputs) : k \notin DOMAIN kwargs}
        missing_candidate == {k \in Range(self.candidate_encoder.inputs) :
                                 ("candidate_" \o k) \notin DOMAIN kwargs}
        prefix == PrefixRepresentation(self, kwargs)
        candidate == CandidateRepresentation(self, kwargs)
        candidate_representation == Normalize(self, candidate.outputs)
        similarity_score == SimilarityScore(prefix.outputs, candidate_representation)
        similarity == Softmax(similarity_score)
        candidate_mask == kwargs["candidate_latitude_mask"]
        candidate_last == CandidateLast(candidate_mask)
        candidate_destination == CandidateDestination(kwargs, candidate_last)
    IN  \* the lookups happen while the graph is built, before any tensor is indexed
        IF missing_prefix # {}
        THEN [status |-> "KeyError", key |-> CHOOSE k \in missing_prefix : TRUE]
        ELSE IF prefix.status = "KeyError"
        THEN [status |-> "KeyError", key |-> prefix.key]
        ELSE IF missing_candidate # {}
        THEN [status |-> "KeyError",
              key |-> "candidate_" \o (CHOOSE k \in missing_candidate : TRUE)]
        ELSE IF candidate.status = "KeyError"
        THEN [status |-> "KeyError", key |-> candidate.key]
        ELSE IF \E k \in {"candidate_latitude_mask", "candidate_latitude", "candidate_longitude"} :
                    k \notin DOMAIN kwargs
        THEN [status |-> "KeyError", key |-> "candidate_latitude_mask"]
        ELSE IF prefix.status # "ok"
        THEN [status |-> prefix.status, prefix |-> prefix]
        ELSE IF candidate.status # "ok"
        THEN [status |-> candidate.status, prefix |-> prefix, candidate |-> candidate]
        ELSE [status |-> "ok",
              prefix |-> prefix,
              candidate |-> candidate,
              candidate_representation |-> candidate_representation,
              similarity_score |-> similarity_score,
              similarity |-> similarity,
              candidate_last |-> candidate_last,
              candidate_destination |-> candidate_destination,
              destination |-> WeightedSum(similarity, candidate_destination)]

(* error.erdist: a distance between two coordinate pairs, zero exactly on equal pairs *)
erdist(a, b) ==
    RAdd(RAbs(RAdd(a[1], RMul(RInt(-1), b[1]))), RAbs(RAdd(a[2], RMul(RInt(-1), b[2]))))

cost(self, kwargs) ==
    LET y_hat == predict(self, kwargs)
        missing == {k \in {"destination_latitude", "destination_longitude"} :
                       k \notin DOMAIN kwargs}
        y == [i \in 1..Len(kwargs["destination_latitude"]) |->
                <<RInt(kwargs["destination_latitude"][i]),
                  RInt(kwargs["destination_longitude"][i])>>]
    IN  IF y_hat.status = "KeyError"
        THEN y_hat
        ELSE IF missing # {}
        THEN [status |-> "KeyError", key |-> CHOOSE k \in missing : TRUE]
        ELSE IF y_hat.status # "ok"
        THEN y_hat
        ELSE [status |-> "ok",
              y_hat |-> y_hat,
              cost |-> RDiv(RSum([i \in 1..Len(y) |-> erdist(y_hat.destination[i], y[i])]),
                            RInt(Len(y)))]

(* ------------------------- configurations and batches ------------------ *)
\* context features as (name, number of values, embedding size)
DayOfWeek == <<"day_of_week", 7, 1>>
WeekOfYear == <<"week_of_year", 52, 2>>

EncoderConfig(rec_state_dim, dim_embeddings, dim_hidden) ==
    [rec_state_dim |-> rec_state_dim,
     dim_embeddings |-> dim_embeddings,
     dim_hidden |-> dim_hidden]

\* the models of Spec: the two encoders may declare different context keys
\* and carry different parameters
Models ==
    {Model([prefix_encoder |-> EncoderConfig(1, pk, <<2>>),
            candidate_encoder |-> EncoderConfig(1, ck, <<2>>),
            representation_size |-> MaxOutDim,
            normalize_representation |-> nr],
           [prefix_encoder |-> 1, candidate_encoder |-> 2]) :
        pk \in {<<>>, <<DayOfWeek>>}, ck \in {<<>>, <<DayOfWeek>>},
        nr \in BOOLEAN}

\* the models of SpecEncoder: the prefix encoder's dimensions vary
EncoderModels ==
    {Model([prefix_encoder |-> EncoderConfig(dim, keys, hidden),
            candidate_encoder |-> EncoderConfig(1, <<>>, <<>>),
            representation_size |-> out,
            normalize_representation |-> FALSE],
           [prefix_encoder |-> 1, candidate_encoder |-> 2]) :
        dim \in 1..MaxRecDim, out \in 1..MaxOutDim,
        keys \in {<<>>, <<DayOfWeek>>, <<DayOfWeek, WeekOfYear>>},
        hidden \in {<<>>, <<2>>}}

\* One input array of a padded batch whose row i has lens[i] valid points.
\* Valid coordinates differ from one timestep and one row to the next;
\* padding is 0.
Field(name, lens, T) ==
    CASE name = "latitude" ->
            [i \in 1..Len(lens) |-> [t \in 1..T |->
                IF t <= lens[i] THEN train_gps_mean[1] + train_gps_std[1] * (t - i) ELSE 0]]
      [] name = "longitude" ->
            [i \in 1..Len(lens) |-> [t \in 1..T |->
                IF t <= lens[i] THEN train_gps_mean[2] + train_gps_std[2] * (2 * i - t) ELSE 0]]
      [] name = "latitude_mask" ->
            [i \in 1..Len(lens) |-> [t \in 1..T |-> IF t <= lens[i] THEN 1 ELSE 0]]
      [] name = "destination_latitude" ->
            [i \in 1..Len(lens) |-> train_gps_mean[1] + train_gps_std[1] * i]
      [] name = "destination_longitude" ->
            [i \in 1..Len(lens) |-> train_gps_mean[2] - train_gps_std[2] * i]
      [] OTHER -> [i \in 1..Len(lens) |-> i % 2]

\* the keyword mapping a stream supplies for the declared names
Kwargs(self, names, T, plens, clens) ==
    [name \in Range(names) |->
        IF \E k \in Range(self.candidate_encoder.inputs) : name = "candidate_" \o k
        THEN Field(CHOOSE k \in Range(self.candidate_encoder.inputs) : name = "candidate_" \o k,
                   clens, T)
        ELSE Field(name, plens, T)]

\* The numbers of valid points of the rows of a batch.  Every operation
\* treats the rows of a batch alike, so the candidate rows are listed in
\* non-decreasing length, and the prefix rows (which never meet one another)
\* take consecutive lengths from a first one.
Lens(B, T) == [1..B -> 0..T]
CandidateLens(B, T) == {l \in Lens(B, T) : \A j \in 1..(B - 1) : l[j] <= l[j + 1]}
PrefixLens(B, T) == {[i \in 1..B |-> (k + i - 1) % (T + 1)] : k \in 0..T}

Idle == [op |-> "idle"]
NoResult == [status |-> "none"]

(* ------------------------------ behaviour ------------------------------ *)
Init ==
    /\ model \in Models
    /\ call = Idle
    /\ result = NoResult

Predict ==
    /\ call.op = "idle"
    /\ \E T \in 1..MaxT, P \in 1..MaxPrefix, C \in 1..MaxCand :
         \E plens \in PrefixLens(P, T), clens \in CandidateLens(C, T) :
            LET kwargs == Kwargs(model, predict_inputs(model), T, plens, clens)
            IN  /\ call' = [op |-> "predict", kwargs |-> kwargs]
                /\ result' = predict(model, kwargs)
    /\ UNCHANGED model

Cost ==
    /\ call.op = "idle"
    /\ \E T \in 1..MaxT, P \in 1..MaxPrefix, C \in 1..MaxCand :
         \E plens \in PrefixLens(P, T), clens \in CandidateLens(C, T) :
            LET kwargs == Kwargs(model, cost_inputs(model), T, plens, clens)
            IN  /\ call' = [op |-> "cost", kwargs |-> kwargs]
                /\ result' = cost(model, kwargs)
    /\ UNCHANGED model

Return ==
    /\ call.op # "idle"
    /\ call' = Idle
    /\ result' = NoResult
    /\ UNCHANGED model

Next == Predict \/ Cost \/ Return

Spec == Init /\ [][Next]_vars

\* the encoder on its own
InitEncoder ==
    /\ model \in EncoderModels
    /\ call = Idle
    /\ result = NoResult

Apply ==
    /\ call.op = "idle"
    /\ \E T \in 1..MaxT, B \in 1..MaxPrefix :
         \E lens \in Lens(B, T) :
            LET kwargs == Kwargs(model, model.prefix_encoder.inputs, T, lens, lens)
            IN  /\ call' = [op |-> "apply", kwargs |-> kwargs]
                /\ result' = apply(model.prefix_encoder, kwargs)
    /\ UNCHANGED model

NextEncoder == Apply \/ Return

SpecEncoder == InitEncoder /\ [][NextEncoder]_vars

(* ------------------------------ properties ----------------------------- *)
Called == call.op \in {"predict", "cost"}

\* what predict returned in the current call (cost wraps it)
PredictResult == IF call.op = "cost" /\ result.status = "ok" THEN result.y_hat ELSE result

PredictOk == Called /\ PredictResult.status = "ok"

\* number of valid points of a mask row (batch x time orientation)
Valid(row) == Cardinality({t \in 1..Len(row) : row[t] = 1})

ValueOf(x) == x.n \div x.d
REq(x, y) == RLeq(x, y) /\ RLeq(y, x)

\* C1: in RecurrentEncoder.apply, a row whose mask is k >= 1 ones followed by
\* zeros contributes the forward hidden state of timestep k-1 (zero-based).
C1_ForwardStateAtLastValid ==
    (call.op = "apply" /\ result.status = "ok") =>
        \A i \in 1..Len(call.kwargs["latitude_mask"]) :
            LET k == Valid(call.kwargs["latitude_mask"][i])
                dim == model.prefix_encoder.config.rec_state_dim
            IN  k >= 1 =>
                  SubSeq(result.inputs[i], dim + 1, 2 * dim)
                    = SubSeq(Path(model.prefix_encoder, call.kwargs)[k][i], 1, dim)

\* C2: in Model.predict, the destination of a candidate row with k >= 1
\* valid points is the coordinate pair at that row's own timestep k-1.
C2_CandidateDestinationIsLastValid ==
    PredictOk =>
        \A j \in 1..Len(call.kwargs["candidate_latitude_mask"]) :
            LET k == Valid(call.kwargs["candidate_latitude_mask"][j])
            IN  k >= 1 =>
                  PredictResult.candidate_destination[j]
                    = <<call.kwargs["candidate_latitude"][j][k],
                        call.kwargs["candidate_longitude"][j][k]>>

\* a padded candidate row beside a full one
C2_Witness ==
    /\ PredictOk
    /\ \E j, j2 \in 1..Len(call.kwargs["candidate_latitude_mask"]) :
          LET k == Valid(call.kwargs["candidate_latitude_mask"][j])
              k2 == Valid(call.kwargs["candidate_latitude_mask"][j2])
          IN  /\ k >= 1
              /\ k < Len(call.kwargs["candidate_latitude_mask"][j])
              /\ k2 = Len(call.kwargs["candidate_latitude_mask"][j2])
              /\ PredictResult.candidate_destination[j] # PredictResult.candidate_destination[j2]

\* C3: each coordinate of every predicted destination lies between the
\* minimum and the maximum of that coordinate over the candidate destinations.
C3_PredictionWithinCandidateRange ==
    PredictOk =>
        \A i \in 1..Len(PredictResult.destination) : \A c \in 1..2 :
            /\ \E j \in 1..Len(PredictResult.candidate_destination) :
                  RLeq(RInt(PredictResult.candidate_destination[j][c]),
                       PredictResult.destination[i][c])
            /\ \E j \in 1..Len(PredictResult.candidate_destination) :
                  RLeq(PredictResult.destination[i][c],
                       RInt(PredictResult.candidate_destination[j][c]))

\* C4: the attention matrix has one row per prefix and one column per
\* candidate, non-negative entries, and rows that sum to 1.
C4_AttentionRowsSumToOne ==
    PredictOk =>
        /\ Len(PredictResult.similarity) = Len(call.kwargs["latitude_mask"])
        /\ \A i \in 1..Len(PredictResult.similarity) :
              /\ Len(PredictResult.similarity[i]) = Len(call.kwargs["candidate_latitude_mask"])
              /\ \A j \in 1..Len(PredictResult.similarity[i]) :
                    RLeq(RInt(0), PredictResult.similarity[i][j])
              /\ RSum(PredictResult.similarity[i]) = RInt(1)

\* a prefix row whose similarity scores are all equal
Uniform(i) ==
    \A j, j2 \in 1..Len(PredictResult.similarity_score[i]) :
        REq(PredictResult.similarity_score[i][j], PredictResult.similarity_score[i][j2])

\* C5: a prefix whose similarity scores are all equal is predicted the
\* unweighted mean of the candidate destinations.
C5_UniformAttentionGivesMean ==
    PredictOk =>
        \A i \in 1..Len(PredictResult.destination) :
            Uniform(i) =>
                \A c \in 1..2 :
                    PredictResult.destination[i][c]
                      = Rat(SumSeq([j \in 1..Len(PredictResult.candidate_destination) |->
                                       PredictResult.candidate_destination[j][c]]),
                            Len(PredictResult.candidate_destination))

\* two prefixes, three candidates with different destinations, equal scores
C5_Witness ==
    /\ PredictOk
    /\ Len(PredictResult.destination) = 2
    /\ Len(PredictResult.candidate_destination) = 3
    /\ \A i \in 1..2 : Uniform(i)
    /\ PredictResult.candidate_destination[1] # PredictResult.candidate_destination[2]

\* C6: the model declares the prefix encoder's input names followed by the
\* candidate encoder's names prefixed with candidate_; predict declares that
\* list and cost declares it followed by the two ground-truth names.
C6_DeclaredInputs ==
    LET pe == model.prefix_encoder.inputs
        ce == model.candidate_encoder.inputs
        pi == predict_inputs(model)
        ci == cost_inputs(model)
    IN  /\ Len(model.inputs) = Len(pe) + Len(ce)
        /\ \A n \in 1..Len(pe) : model.inputs[n] = pe[n]
        /\ \A n \in 1..Len(ce) : model.inputs[Len(pe) + n] = "candidate_" \o ce[n]
        /\ pi = model.inputs
        /\ Len(ci) = Len(pi) + 2
        /\ SubSeq(ci, 1, Len(pi)) = pi
        /\ ci[Len(pi) + 1] = "destination_latitude"
        /\ ci[Len(pi) + 2] = "destination_longitude"
        /\ {"candidate_latitude", "candidate_longitude", "candidate_latitude_mask"}
              \subseteq Range(pi)
        /\ call.op = "predict" => DOMAIN call.kwargs = Range(pi)
        /\ call.op = "cost" => DOMAIN call.kwargs = Range(ci)

\* a cost call on a model whose encoders declare different context keys
C6_Witness ==
    /\ call.op = "cost"
    /\ Len(model.prefix_encoder.inputs) # Len(model.candidate_encoder.inputs)
    /\ "candidate_day_of_week" \in DOMAIN call.kwargs

\* C7: apply returns one vector of output_dim components per example, and
\* the vector fed to the feed-forward network has 2 * rec_state_dim plus the
\* embedding sizes components, whatever the padded length.
C7_RepresentationShape ==
    call.op = "apply" =>
        /\ result.status # "ValueError"
        /\ result.status = "ok" =>
              /\ Len(result.outputs) = Len(call.kwargs["latitude"])
              /\ \A i \in 1..Len(result.outputs) :
                    /\ Len(result.outputs[i]) = model.config.representation_size
                    /\ Len(result.inputs[i])
                         = 2 * model.config.prefix_encoder.rec_state_dim
                           + SumSeq([n \in 1..Len(model.config.prefix_encoder.dim_embeddings) |->
                                        model.config.prefix_encoder.dim_embeddings[n][3]])

\* a full batch of the longest padded length, every row with valid points
\* and one of them padded, on the widest encoder
C7_Witness ==
    /\ call.op = "apply"
    /\ result.status = "ok"
    /\ \A i \in 1..Len(call.kwargs["latitude_mask"]) :
          Valid(call.kwargs["latitude_mask"][i]) >= 1
    /\ \E i \in 1..Len(call.kwargs["latitude_mask"]) :
          Valid(call.kwargs["latitude_mask"][i]) < MaxT
    /\ Len(call.kwargs["latitude"]) = MaxPrefix
    /\ Len(call.kwargs["latitude"][1]) = MaxT
    /\ model.config.prefix_encoder.rec_state_dim = MaxRecDim
    /\ Len(model.config.prefix_encoder.dim_embeddings) = 2
    /\ model.config.representation_size = 1

\* parameter values a candidate encoder could carry
ParamValues == {1, 2, 3}

\* row i of the prefix inputs and row j of the candidate inputs are equal
SameInputs(i, j) ==
    /\ Range(model.prefix_encoder.inputs) = Range(model.candidate_encoder.inputs)
    /\ \A name \in Range(model.prefix_encoder.inputs) :
          call.kwargs[name][i] = call.kwargs["candidate_" \o name][j]

\* C8: candidates are encoded by the prefix encoder: the result of predict
\* and of cost does not depend on the candidate encoder's parameters, and a
\* candidate with the inputs of a prefix gets that prefix's representation.
C8_CandidatesUsePrefixEncoder ==
    Called =>
        /\ \A q \in ParamValues :
              LET other == Model(model.config,
                                 [prefix_encoder |-> model.prefix_encoder.params,
                                  candidate_encoder |-> q])
              IN  result = IF call.op = "cost" THEN cost(other, call.kwargs)
                           ELSE predict(other, call.kwargs)
        /\ PredictOk =>
              /\ PredictResult.candidate.outputs
                   = apply(model.prefix_encoder,
                           [name \in Range(model.candidate_encoder.inputs) |->
                               call.kwargs["candidate_" \o name]]).outputs
              /\ \A i \in 1..Len(PredictResult.prefix.outputs) :
                    \A j \in 1..Len(PredictResult.candidate.outputs) :
                        SameInputs(i, j) =>
                            PredictResult.prefix.outputs[i] = PredictResult.candidate.outputs[j]

\* a cost call on a model whose encoders carry different parameters, with a
\* candidate that has the inputs of a prefix and a non-zero representation
C8_Witness ==
    /\ PredictOk
    /\ call.op = "cost"
    /\ model.candidate_encoder.params # model.prefix_encoder.params
    /\ Len(model.prefix_encoder.context_embedder.inputs) = 1
    /\ Len(PredictResult.candidate.outputs) >= 2
    /\ \E i \in 1..Len(PredictResult.prefix.outputs) :
          \E j \in 1..Len(PredictResult.candidate.outputs) :
              /\ SameInputs(i, j)
              /\ Valid(call.kwargs["latitude_mask"][i]) >= 1
              /\ \E d \in 1..Len(PredictResult.candidate.outputs[j]) :
                    PredictResult.candidate.outputs[j][d] # 0

\* the traces of the encoder applications of the current call, each with the
\* mask it was applied to
ApplyTraces ==
    (IF "prefix" \in DOMAIN PredictResult
     THEN {<<PredictResult.prefix, call.kwargs["latitude_mask"]>>} ELSE {})
    \cup
    (IF "candidate" \in DOMAIN PredictResult
     THEN {<<PredictResult.candidate, call.kwargs["candidate_latitude_mask"]>>} ELSE {})

EmptyRow(mask) == \E i \in 1..Len(mask) : Valid(mask[i]) = 0

\* C9: a row without valid positions gives last index -1 in apply and in
\* predict; the negative index is not clamped or rejected but handed to the
\* indexing, which wraps it; the only failure is the tensor library's bounds
\* check, when the wrapped index still falls outside the axis.
C9_NegativeIndexUnchecked ==
    Called =>
        /\ \A tr \in ApplyTraces :
              \A i \in 1..Len(tr[2]) :
                  Valid(tr[2][i]) = 0 =>
                      /\ tr[1].last_id[i] = -1
                      /\ tr[1].index[i] < 0
                      /\ tr[1].status = "ok" =>
                            tr[1].timestep[i] = Len(tr[2][i]) + tr[1].index[i]
        /\ PredictOk =>
              \A j \in 1..Len(call.kwargs["candidate_latitude_mask"]) :
                  Valid(call.kwargs["candidate_latitude_mask"][j]) = 0 =>
                      /\ PredictResult.candidate_last[j] = -1
                      /\ PredictResult.candidate_destination[j]
                           = <<call.kwargs["candidate_latitude"][j]
                                   [Len(call.kwargs["candidate_latitude"][j])],
                               call.kwargs["candidate_longitude"][j]
                                   [Len(call.kwargs["candidate_longitude"][j])]>>
        /\ result.status \in {"ok", "KeyError", "IndexError"}
        /\ result.status = "IndexError" =>
              /\ Len(call.kwargs["latitude_mask"][1]) = 1
              /\ EmptyRow(call.kwargs["latitude_mask"])
                    \/ EmptyRow(call.kwargs["candidate_latitude_mask"])
        /\ (Len(call.kwargs["latitude_mask"][1]) >= 2 /\ result.status # "KeyError") =>
              result.status = "ok"

\* a call that returns although a prefix row and a candidate row are empty
C9_Witness ==
    /\ PredictOk
    /\ EmptyRow(call.kwargs["latitude_mask"])
    /\ EmptyRow(call.kwargs["candidate_latitude_mask"])

\* C10: a call that supplies every declared input name never fails on a
\* missing key.
C10_DeclaredCompleteNeverMissesKey ==
    Called =>
        (Range(IF call.op = "cost" THEN cost_inputs(model) ELSE predict_inputs(model))
            \subseteq DOMAIN call.kwargs
         => result.status # "KeyError")

====
